---- MODULE Spec2Model ----
(***************************************************************************)
(* The hash command family of the key-value store (db/database/hash.go):   *)
(* the keyspace, the executors, the undo generators, the command table     *)
(* filled by init, dispatch with its arity gate, the append-only log and   *)
(* its replay, and the transaction coordinator with its undo log.          *)
(*                                                                         *)
(* A byte string ([]byte, string) is a sequence of one-character strings:  *)
(* "0.5" is <<"0", ".", "5">>.  A value stored in a dict is an interface{} *)
(* and keeps its dynamic type: [t |-> "str"] for a Go string, [t |->       *)
(* "bytes"] for a []byte.  An optional byte string (a []byte that may be   *)
(* nil) is a sequence of length 0 or 1.                                    *)
(***************************************************************************)
EXTENDS Integers, Sequences, FiniteSets, TLC

VARIABLES
    store,    \* db.data: key -> entity
    aof,      \* the CmdLines handed to addAof, in append order
    reply,    \* the reply of the last command (or the panic that ended it)
    cmd,      \* the last CmdLine dispatched
    pre,      \* keyspace and log immediately before the last command
    steps,    \* number of commands dispatched so far
    crashed,  \* an executor panicked: the process is gone
    tx,       \* the transaction coordinator's state
    locks,    \* the key locks: key -> [writer, readers]
    txs,      \* the transaction each concurrent client is running
    applied   \* the logged CmdLines, in the order their mutations were applied

vars == <<store, aof, reply, cmd, pre, steps, crashed, tx, locks, txs, applied>>

----------------------------------------------------------------------------
(* Bounds *)

\* commands dispatched in one behaviour
MaxCmds == 2

----------------------------------------------------------------------------
(* Input alphabets *)

Keys == {<<"k", "1">>, <<"k", "2">>}

\* the key that holds a string entity from the start
StringKey == <<"k", "2">>

Fields == {<<"f">>, <<"g">>}

\* "1" parses as an integer and as a decimal, "0.5" as a decimal only,
\* "x" as neither
Vals == {<<"1">>, <<"x">>, <<"0", ".", "5">>}

\* count arguments of HRandField
Counts == {<<"2">>, <<"-", "2">>, <<"0">>, <<"x">>}

\* third arguments of HRandField
Options == {<<"W", "i", "t", "h", "V", "a", "l", "u", "e", "s">>, <<"x">>}

----------------------------------------------------------------------------
(* Byte strings and numbers *)

Some(b) == <<b>>

None == <<>>

IsDigit(c) == c \in {"0", "1", "2", "3", "4", "5", "6", "7", "8", "9"}

DigitVal(c) ==
    CASE c = "0" -> 0 [] c = "1" -> 1 [] c = "2" -> 2 [] c = "3" -> 3
      [] c = "4" -> 4 [] c = "5" -> 5 [] c = "6" -> 6 [] c = "7" -> 7
      [] c = "8" -> 8 [] c = "9" -> 9

DigitChar(n) ==
    CASE n = 0 -> "0" [] n = 1 -> "1" [] n = 2 -> "2" [] n = 3 -> "3"
      [] n = 4 -> "4" [] n = 5 -> "5" [] n = 6 -> "6" [] n = 7 -> "7"
      [] n = 8 -> "8" [] n = 9 -> "9"

RECURSIVE DigitsVal(_)
DigitsVal(s) ==
    IF Len(s) = 0 THEN 0
    ELSE 10 * DigitsVal(SubSeq(s, 1, Len(s) - 1)) + DigitVal(s[Len(s)])

AllDigits(s) == Len(s) > 0 /\ \A i \in 1..Len(s) : IsDigit(s[i])

\* the digits of s after its sign, if it has one
Unsigned(s) == IF Len(s) > 0 /\ s[1] \in {"+", "-"} THEN Tail(s) ELSE s

\* an integer is kept exactly, whatever its size, as a sign and the decimal
\* digits of its magnitude without leading zeros:
\* [neg |-> FALSE, mag |-> <<"4", "2">>]
RECURSIVE StripZeros(_)
StripZeros(s) == IF Len(s) > 1 /\ s[1] = "0" THEN StripZeros(Tail(s)) ELSE s

Exact(neg, mag) == [neg |-> neg /\ mag # <<"0">>, mag |-> mag]

MagLess(a, b) ==
    \/ Len(a) < Len(b)
    \/ /\ Len(a) = Len(b)
       /\ \E i \in 1..Len(a) :
            /\ DigitVal(a[i]) < DigitVal(b[i])
            /\ \A j \in 1..(i - 1) : a[j] = b[j]

Front(s) == SubSeq(s, 1, Len(s) - 1)

LastDigit(s) == IF Len(s) = 0 THEN 0 ELSE DigitVal(s[Len(s)])

\* a + b + carry on digit strings
RECURSIVE AddMag(_, _, _)
AddMag(a, b, carry) ==
    IF Len(a) = 0 /\ Len(b) = 0 THEN (IF carry = 0 THEN <<>> ELSE <<"1">>)
    ELSE Append(AddMag(Front(a), Front(b), (LastDigit(a) + LastDigit(b) + carry) \div 10),
                DigitChar((LastDigit(a) + LastDigit(b) + carry) % 10))

\* a - b - borrow on digit strings, for a >= b + borrow
RECURSIVE SubMag(_, _, _)
SubMag(a, b, borrow) ==
    IF Len(a) = 0 THEN <<>>
    ELSE Append(SubMag(Front(a), Front(b),
                       IF LastDigit(a) - LastDigit(b) - borrow < 0 THEN 1 ELSE 0),
                DigitChar((LastDigit(a) - LastDigit(b) - borrow + 10) % 10))

\* the integer x + y, exactly
Sum(x, y) ==
    IF x.neg = y.neg THEN Exact(x.neg, AddMag(x.mag, y.mag, 0))
    ELSE IF MagLess(x.mag, y.mag) THEN Exact(y.neg, StripZeros(SubMag(y.mag, x.mag, 0)))
    ELSE Exact(x.neg, StripZeros(SubMag(x.mag, y.mag, 0)))

\* math.MaxInt64
MaxInt64 == <<"9", "2", "2", "3", "3", "7", "2", "0", "3", "6", "8", "5", "4", "7", "7",
              "5", "8", "0", "7">>

\* the magnitude of math.MinInt64
MinInt64Mag == <<"9", "2", "2", "3", "3", "7", "2", "0", "3", "6", "8", "5", "4", "7",
                 "7", "5", "8", "0", "8">>

\* 2^64
Two64 == <<"1", "8", "4", "4", "6", "7", "4", "4", "0", "7", "3", "7", "0", "9", "5",
           "5", "1", "6", "1", "6">>

InRange64(x) ==
    IF x.neg THEN ~MagLess(MinInt64Mag, x.mag) ELSE ~MagLess(MaxInt64, x.mag)

\* int64 arithmetic wraps around: the sum of two int64 is off by 2^64 at most
Wrap64(x) ==
    IF InRange64(x) THEN x
    ELSE IF x.neg THEN Sum(x, Exact(FALSE, Two64))
    ELSE Sum(x, Exact(TRUE, Two64))

\* val += delta on int64
Add64(x, y) == Wrap64(Sum(x, y))

\* int(count64) of a count that fits the model's integers
ToInt(x) == IF x.neg THEN -DigitsVal(x.mag) ELSE DigitsVal(x.mag)

ParseDigits(s, body) ==
    IF AllDigits(body) /\ InRange64(Exact(Len(s) > 0 /\ s[1] = "-", StripZeros(body)))
    THEN [ok |-> TRUE, n |-> Exact(Len(s) > 0 /\ s[1] = "-", StripZeros(body))]
    ELSE [ok |-> FALSE, n |-> Exact(FALSE, <<"0">>)]

\* strconv.ParseInt(s, 10, 64): an optional sign, then one or more decimal
\* digits; a value outside the int64 range is an error
ParseInt(s) == ParseDigits(s, Unsigned(s))

\* strconv.FormatInt(n, 10)
FormatInt(n) == IF n.neg THEN <<"-">> \o n.mag ELSE n.mag

Dots(body) == {i \in 1..Len(body) : body[i] = "."}

\* the digits before and after the decimal point; the number is kept exactly,
\* in tenths
DecParts(s, ip, fp) ==
    IF \/ Len(ip) + Len(fp) = 0
       \/ Len(fp) > 1
       \/ \E i \in 1..Len(ip) : ~IsDigit(ip[i])
       \/ \E i \in 1..Len(fp) : ~IsDigit(fp[i])
    THEN [ok |-> FALSE, t |-> Exact(FALSE, <<"0">>)]
    ELSE [ok |-> TRUE,
          t |-> Exact(Len(s) > 0 /\ s[1] = "-",
                      StripZeros(ip \o (IF Len(fp) = 1 THEN fp ELSE <<"0">>)))]

\* dot is the position of the decimal point (0: none)
DecAt(s, body, dot) ==
    IF dot = 0 THEN DecParts(s, body, <<>>)
    ELSE DecParts(s, SubSeq(body, 1, dot - 1), SubSeq(body, dot + 1, Len(body)))

DecBody(s, body, dots) ==
    IF Cardinality(dots) > 1 THEN [ok |-> FALSE, t |-> Exact(FALSE, <<"0">>)]
    ELSE IF dots = {} THEN DecAt(s, body, 0)
    ELSE DecAt(s, body, CHOOSE i \in dots : TRUE)

\* decimal.NewFromString on the strings of the model (no exponent, at most one
\* fractional digit); a decimal has no range limit
ParseDec(s) == DecBody(s, Unsigned(s), Dots(Unsigned(s)))

\* the digits of a magnitude in tenths, as a decimal: a zero fraction is dropped
TenthsDigits(mag) ==
    IF mag[Len(mag)] = "0" THEN (IF Len(mag) = 1 THEN mag ELSE Front(mag))
    ELSE (IF Len(mag) = 1 THEN <<"0">> ELSE Front(mag)) \o <<".", mag[Len(mag)]>>

\* Decimal.String() of a number kept in tenths
FormatDec(t) == IF t.neg THEN <<"-">> \o TenthsDigits(t.mag) ELSE TenthsDigits(t.mag)

\* strings.ToLower on a command name
ToLower(s) ==
    CASE s = "HSet" -> "hset" [] s = "HSetNX" -> "hsetnx" [] s = "HGet" -> "hget"
      [] s = "HExists" -> "hexists" [] s = "HDel" -> "hdel" [] s = "HLen" -> "hlen"
      [] s = "HStrlen" -> "hstrlen" [] s = "HMSet" -> "hmset" [] s = "HMGet" -> "hmget"
      [] s = "HKeys" -> "hkeys" [] s = "HVals" -> "hvals" [] s = "HGetAll" -> "hgetall"
      [] s = "HIncrBy" -> "hincrby" [] s = "HIncrByFloat" -> "hincrbyfloat"
      [] s = "HRandField" -> "hrandfield"
      [] OTHER -> s

LowerChar(c) ==
    CASE c = "W" -> "w" [] c = "I" -> "i" [] c = "T" -> "t" [] c = "H" -> "h"
      [] c = "V" -> "v" [] c = "A" -> "a" [] c = "L" -> "l" [] c = "U" -> "u"
      [] c = "E" -> "e" [] c = "S" -> "s" [] OTHER -> c

\* strings.ToLower on an argument
ToLowerBytes(b) == [i \in 1..Len(b) |-> LowerChar(b[i])]

----------------------------------------------------------------------------
(* Values, entities, replies *)

\* a Go string held in an interface{}
StrVal(b) == [t |-> "str", b |-> b]

\* a []byte held in an interface{}
BytesVal(b) == [t |-> "bytes", b |-> b]

\* v, ok := raw.([]byte): nil when the dynamic type is not []byte
AsBytes(raw) == IF raw.t = "bytes" THEN Some(raw.b) ELSE None

NoEntity == [kind |-> "none"]

\* an entity of another command family (a string key)
StringEntity == [kind |-> "string"]

HashEntity(d) == [kind |-> "hash", d |-> d]

IntReply(n) == [kind |-> "int", n |-> n]

\* arg is an optional byte string: MakeBulkReply(nil) carries None
BulkReply(arg) == [kind |-> "bulk", arg |-> arg]

NullBulkReply == [kind |-> "nullbulk"]

MultiBulkReply(args) == [kind |-> "multibulk", args |-> args]

EmptyMultiBulkReply == [kind |-> "emptymultibulk"]

OkReply == [kind |-> "ok"]

ErrReply(msg) == [kind |-> "err", msg |-> msg]

WrongTypeErrReply == ErrReply("WRONGTYPE")

SyntaxErrReply == ErrReply("ERR syntax error")

\* a failed unchecked type assertion: no reply is produced
Panic == [kind |-> "panic"]

IsErrorReply(r) == r.kind = "err"

----------------------------------------------------------------------------
(* dict.Dict *)

EmptyDict == [x \in {} |-> BytesVal(<<>>)]

DictHas(d, field) == field \in DOMAIN d

DictLen(d) == Cardinality(DOMAIN d)

\* d.Put: 1 when the field is new, 0 when it is overwritten
PutResult(d, field) == IF DictHas(d, field) THEN 0 ELSE 1

Put(d, field, val) ==
    [x \in (DOMAIN d) \cup {field} |-> IF x = field THEN val ELSE d[x]]

PutIfAbsent(d, field, val) == IF DictHas(d, field) THEN d ELSE Put(d, field, val)

\* d.Remove: 1 when the field was there
RemoveResult(d, field) == IF DictHas(d, field) THEN 1 ELSE 0

DictRemove(d, field) == [x \in (DOMAIN d) \ {field} |-> d[x]]

RECURSIVE SeqsOver(_, _)
SeqsOver(S, n) ==
    IF n = 0 THEN {<<>>}
    ELSE {Append(s, x) : s \in SeqsOver(S, n - 1), x \in S}

IsDistinct(s) == \A i, j \in 1..Len(s) : i # j => s[i] # s[j]

Min(a, b) == IF a < b THEN a ELSE b

\* d.ForEach: every field once, in an order the dict chooses
ForEachOrders(d) == {s \in SeqsOver(DOMAIN d, DictLen(d)) : IsDistinct(s)}

\* d.RandomDistinctKeys(n): min(n, len) different fields
RandomDistinctKeys(d, n) ==
    {s \in SeqsOver(DOMAIN d, Min(n, DictLen(d))) : IsDistinct(s)}

\* d.RandomKeys(n): n fields, repeats allowed
RandomKeys(d, n) == SeqsOver(DOMAIN d, n)

----------------------------------------------------------------------------
(* DB: db is [data |-> key -> entity, aof |-> sequence of CmdLines] *)

GetEntity(db, key) ==
    [exists |-> db.data[key].kind # "none", entity |-> db.data[key]]

PutEntity(db, key, entity) == [db EXCEPT !.data[key] = entity]

DbRemove(db, key) == [db EXCEPT !.data[key] = NoEntity]

addAof(db, line) == [db EXCEPT !.aof = Append(@, line)]

\* utils.ToCmdLine3(name, args...)
ToCmdLine3(name, args) == [name |-> name, args |-> args]

\* the dict of a hash key after the executor changed it in place
SetDict(db, key, d) == [db EXCEPT !.data[key] = HashEntity(d)]

----------------------------------------------------------------------------
(* Access to the dict of a key *)

\* getAsDict without the type assertion: an entity of another type counts as
\* no dict
getAsDictUnchecked(db, key) ==
    IF db.data[key].kind = "hash"
    THEN [d |-> db.data[key].d, isnil |-> FALSE, err |-> FALSE]
    ELSE [d |-> EmptyDict, isnil |-> TRUE, err |-> FALSE]

\* [d, isnil, err]: isnil when the key is absent, err when it holds another type
getAsDict(db, key) ==
    LET e == GetEntity(db, key)
    IN  IF ~e.exists THEN [d |-> EmptyDict, isnil |-> TRUE, err |-> FALSE]
        ELSE IF e.entity.kind # "hash"
             THEN [d |-> EmptyDict, isnil |-> TRUE, err |-> TRUE]
             ELSE [d |-> e.entity.d, isnil |-> FALSE, err |-> FALSE]

\* [db, d, init, err]: an absent key gets a fresh empty dict, stored at once
getOrInitDict(db, key) ==
    LET g == getAsDict(db, key)
    IN  IF g.err THEN [db |-> db, d |-> EmptyDict, init |-> FALSE, err |-> TRUE]
        ELSE IF g.isnil
             THEN [db |-> PutEntity(db, key, HashEntity(EmptyDict)),
                   d |-> EmptyDict, init |-> TRUE, err |-> FALSE]
             ELSE [db |-> db, d |-> g.d, init |-> FALSE, err |-> FALSE]

Result(db, r) == [db |-> db, reply |-> r]

----------------------------------------------------------------------------
(* Executors: args excludes the command name; the result is the DB after   *)
(* the call and the reply                                                  *)

execHSet(db, args) ==
    LET key == args[1]
        field == args[2]
        value == StrVal(args[3])
        g == getOrInitDict(db, key)
    IN  IF g.err THEN Result(db, WrongTypeErrReply)
        ELSE LET res == PutResult(g.d, field)
                 db1 == SetDict(g.db, key, Put(g.d, field, value))
             IN  Result(addAof(db1, ToCmdLine3("hset", args)), IntReply(res))

\* execHSetNX that overwrites: Put where the code calls PutIfAbsent
execHSetNXOverwrite(db, args) ==
    LET g == getOrInitDict(db, args[1])
    IN  IF g.err THEN Result(db, WrongTypeErrReply)
        ELSE IF PutResult(g.d, args[2]) > 0
             THEN Result(addAof(SetDict(g.db, args[1], Put(g.d, args[2], BytesVal(args[3]))),
                                ToCmdLine3("hsetnx", args)),
                         IntReply(1))
             ELSE Result(SetDict(g.db, args[1], Put(g.d, args[2], BytesVal(args[3]))),
                         IntReply(0))

execHSetNX(db, args) ==
    LET key == args[1]
        field == args[2]
        value == BytesVal(args[3])
        g == getOrInitDict(db, key)
    IN  IF g.err THEN Result(db, WrongTypeErrReply)
        ELSE LET result == PutResult(g.d, field)
                 db1 == SetDict(g.db, key, PutIfAbsent(g.d, field, value))
             IN  IF result > 0
                 THEN Result(addAof(db1, ToCmdLine3("hsetnx", args)), IntReply(result))
                 ELSE Result(db1, IntReply(result))

execHGet(db, args) ==
    LET key == args[1]
        field == args[2]
        g == getAsDict(db, key)
    IN  IF g.err THEN Result(db, WrongTypeErrReply)
        ELSE IF g.isnil THEN Result(db, NullBulkReply)
        ELSE IF ~DictHas(g.d, field) THEN Result(db, NullBulkReply)
        ELSE Result(db, BulkReply(AsBytes(g.d[field])))

execHExists(db, args) ==
    LET key == args[1]
        field == args[2]
        g == getAsDict(db, key)
    IN  IF g.err THEN Result(db, WrongTypeErrReply)
        ELSE IF g.isnil THEN Result(db, IntReply(0))
        ELSE IF DictHas(g.d, field) THEN Result(db, IntReply(1))
        ELSE Result(db, IntReply(0))

\* the removal loop counting every named field that was there, repeats included
RemoveFieldsCountNamed(d, fields, i) ==
    [d |-> [x \in (DOMAIN d) \ {fields[j] : j \in i..Len(fields)} |-> d[x]],
     deleted |-> Cardinality({j \in i..Len(fields) : DictHas(d, fields[j])})]

\* the removal loop of execHDel from field i on: [d, deleted]
RECURSIVE RemoveFields(_, _, _)
RemoveFields(d, fields, i) ==
    IF i > Len(fields) THEN [d |-> d, deleted |-> 0]
    ELSE LET rest == RemoveFields(DictRemove(d, fields[i]), fields, i + 1)
         IN  [d |-> rest.d, deleted |-> RemoveResult(d, fields[i]) + rest.deleted]

\* execHDel without the removal of the emptied key
execHDelKeepEmpty(db, args) ==
    LET g == getAsDict(db, args[1])
    IN  IF g.err THEN Result(db, WrongTypeErrReply)
        ELSE IF g.isnil THEN Result(db, IntReply(0))
        ELSE LET r == RemoveFields(g.d, Tail(args), 1)
                 db1 == SetDict(db, args[1], r.d)
             IN  Result(IF r.deleted > 0 THEN addAof(db1, ToCmdLine3("hdel", args))
                        ELSE db1,
                        IntReply(r.deleted))

execHDel(db, args) ==
    LET key == args[1]
        fields == Tail(args)
        g == getAsDict(db, key)
    IN  IF g.err THEN Result(db, WrongTypeErrReply)
        ELSE IF g.isnil THEN Result(db, IntReply(0))
        ELSE LET r == RemoveFields(g.d, fields, 1)
                 db1 == SetDict(db, key, r.d)
                 db2 == IF DictLen(r.d) = 0 THEN DbRemove(db1, key) ELSE db1
                 db3 == IF r.deleted > 0
                        THEN addAof(db2, ToCmdLine3("hdel", args)) ELSE db2
             IN  Result(db3, IntReply(r.deleted))

\* execHLen through getOrInitDict: an absent key gets a dict
execHLenInit(db, args) ==
    LET g == getOrInitDict(db, args[1])
    IN  IF g.err THEN Result(db, WrongTypeErrReply)
        ELSE Result(g.db, IntReply(DictLen(g.d)))

execHLen(db, args) ==
    LET key == args[1]
        g == getAsDict(db, key)
    IN  IF g.err THEN Result(db, WrongTypeErrReply)
        ELSE IF g.isnil THEN Result(db, IntReply(0))
        ELSE Result(db, IntReply(DictLen(g.d)))

\* len(value) of a nil []byte is 0
OptLen(o) == IF Len(o) = 0 THEN 0 ELSE Len(o[1])

execHStrLen(db, args) ==
    LET key == args[1]
        field == args[2]
        g == getAsDict(db, key)
    IN  IF g.err THEN Result(db, WrongTypeErrReply)
        ELSE IF g.isnil THEN Result(db, IntReply(0))
        ELSE IF DictHas(g.d, field)
             THEN Result(db, IntReply(OptLen(AsBytes(g.d[field]))))
        ELSE Result(db, IntReply(0))

\* the put loop of execHMSet from pair i on
RECURSIVE PutPairs(_, _, _)
PutPairs(d, args, i) ==
    IF i > (Len(args) - 1) \div 2 THEN d
    ELSE PutPairs(Put(d, args[2 * i], BytesVal(args[2 * i + 1])), args, i + 1)

execHMSet(db, args) ==
    IF Len(args) % 2 # 1 THEN Result(db, SyntaxErrReply)
    ELSE LET key == args[1]
             g == getOrInitDict(db, key)
         IN  IF g.err THEN Result(db, WrongTypeErrReply)
             ELSE LET db1 == SetDict(g.db, key, PutPairs(g.d, args, 1))
                  IN  Result(addAof(db1, ToCmdLine3("hmset", args)), OkReply)

execHMGet(db, args) ==
    LET key == args[1]
        size == Len(args) - 1
        g == getAsDict(db, key)
    IN  IF g.err THEN Result(db, WrongTypeErrReply)
        ELSE IF g.isnil THEN Result(db, MultiBulkReply([i \in 1..size |-> None]))
        ELSE Result(db, MultiBulkReply(
                 [i \in 1..size |->
                     IF DictHas(g.d, args[i + 1]) THEN AsBytes(g.d[args[i + 1]])
                     ELSE None]))

\* order is the order in which d.ForEach visits the fields
execHKeys(db, args, order) ==
    LET key == args[1]
        g == getAsDict(db, key)
    IN  IF g.err THEN Result(db, WrongTypeErrReply)
        ELSE IF g.isnil THEN Result(db, EmptyMultiBulkReply)
        ELSE Result(db, MultiBulkReply([i \in 1..Len(order) |-> Some(order[i])]))

execHVals(db, args, order) ==
    LET key == args[1]
        g == getAsDict(db, key)
    IN  IF g.err THEN Result(db, WrongTypeErrReply)
        ELSE IF g.isnil THEN Result(db, EmptyMultiBulkReply)
        ELSE Result(db, MultiBulkReply(
                 [i \in 1..Len(order) |-> AsBytes(g.d[order[i]])]))

execHGetAll(db, args, order) ==
    LET key == args[1]
        g == getAsDict(db, key)
    IN  IF g.err THEN Result(db, WrongTypeErrReply)
        ELSE IF g.isnil THEN Result(db, EmptyMultiBulkReply)
        ELSE Result(db, MultiBulkReply(
                 [i \in 1..(2 * Len(order)) |->
                     IF i % 2 = 1 THEN Some(order[(i + 1) \div 2])
                     ELSE AsBytes(g.d[order[i \div 2]])]))

\* execHIncrBy once delta is parsed and g is what getOrInitDict returned
HIncrByField(g, args, delta) ==
    IF g.err THEN Result(g.db, WrongTypeErrReply)
    ELSE IF ~DictHas(g.d, args[2])
    THEN Result(addAof(SetDict(g.db, args[1], Put(g.d, args[2], BytesVal(args[3]))),
                       ToCmdLine3("hincrby", args)),
                BulkReply(Some(args[3])))
    \* value.([]byte) without the ok form panics on a Go string
    ELSE IF g.d[args[2]].t # "bytes" THEN Result(g.db, Panic)
    ELSE IF ~ParseInt(g.d[args[2]].b).ok
    THEN Result(g.db, ErrReply("ERR hash value is not an integer"))
    ELSE Result(addAof(SetDict(g.db, args[1],
                               Put(g.d, args[2],
                                   BytesVal(FormatInt(Add64(ParseInt(g.d[args[2]].b).n, delta))))),
                       ToCmdLine3("hincrby", args)),
                BulkReply(Some(FormatInt(Add64(ParseInt(g.d[args[2]].b).n, delta)))))

execHIncrBy(db, args) ==
    IF ~ParseInt(args[3]).ok
    THEN Result(db, ErrReply("ERR value is not an integer or out of range"))
    ELSE HIncrByField(getOrInitDict(db, args[1]), args, ParseInt(args[3]).n)

\* execHIncrByFloat once delta is parsed and g is what getOrInitDict returned
HIncrByFloatField(g, args, delta) ==
    IF g.err THEN Result(g.db, WrongTypeErrReply)
    ELSE IF ~DictHas(g.d, args[2])
    THEN Result(SetDict(g.db, args[1], Put(g.d, args[2], BytesVal(args[3]))),
                BulkReply(Some(args[3])))
    ELSE IF g.d[args[2]].t # "bytes" THEN Result(g.db, Panic)
    ELSE IF ~ParseDec(g.d[args[2]].b).ok
    THEN Result(g.db, ErrReply("ERR hash value is not a float"))
    ELSE Result(addAof(SetDict(g.db, args[1],
                               Put(g.d, args[2],
                                   BytesVal(FormatDec(Sum(ParseDec(g.d[args[2]].b).t, delta))))),
                       ToCmdLine3("hincrbyfloat", args)),
                BulkReply(Some(FormatDec(Sum(ParseDec(g.d[args[2]].b).t, delta)))))

execHIncrByFloat(db, args) ==
    IF ~ParseDec(args[3]).ok THEN Result(db, ErrReply("ERR value is not a valid float"))
    ELSE HIncrByFloatField(getOrInitDict(db, args[1]), args, ParseDec(args[3]).t)

\* the reply built from the sampled fields; raw.([]byte) panics on a Go string
FieldsReply(db, d, fields, withvalues) ==
    IF withvalues = 0
    THEN Result(db, MultiBulkReply([i \in 1..Len(fields) |-> Some(fields[i])]))
    ELSE IF \E i \in 1..Len(fields) : d[fields[i]].t # "bytes"
         THEN Result(db, Panic)
         ELSE Result(db, MultiBulkReply(
                  [i \in 1..(2 * Len(fields)) |->
                      IF i % 2 = 1 THEN Some(fields[(i + 1) \div 2])
                      ELSE Some(d[fields[i \div 2]].b)]))

\* fields is what d.RandomDistinctKeys or d.RandomKeys returns
execHRandField(db, args, fields) ==
    LET key == args[1]
        withvalues == IF Len(args) = 3 THEN 1 ELSE 0
        count64 == IF Len(args) >= 2 THEN ParseInt(args[2])
                   ELSE [ok |-> TRUE, n |-> Exact(FALSE, <<"1">>)]
        count == ToInt(count64.n)
    IN  IF Len(args) > 3
        THEN Result(db, ErrReply("ERR wrong number of arguments for 'hrandfield' command"))
        ELSE IF Len(args) = 3
                /\ ToLowerBytes(args[3]) # <<"w", "i", "t", "h", "v", "a", "l", "u", "e", "s">>
        THEN Result(db, SyntaxErrReply)
        ELSE IF ~count64.ok
        THEN Result(db, ErrReply("ERR value is not an integer or out of range"))
        ELSE
        LET g == getAsDict(db, key)
        IN  IF g.err THEN Result(db, WrongTypeErrReply)
            ELSE IF g.isnil THEN Result(db, EmptyMultiBulkReply)
            ELSE IF count > 0 THEN FieldsReply(db, g.d, fields, withvalues)
            ELSE IF count < 0 THEN FieldsReply(db, g.d, fields, withvalues)
            ELSE Result(db, EmptyMultiBulkReply)

----------------------------------------------------------------------------
(* Undo generators *)

\* the snapshot of the named fields of key, as CmdLines that put them back:
\* HSet for a field that is there, HDel for one that is not
rollbackHashFields(db, key, fields) ==
    LET g == getAsDict(db, key)
    IN  IF g.err THEN <<>>
        ELSE [i \in 1..Len(fields) |->
                 IF ~g.isnil /\ DictHas(g.d, fields[i])
                 THEN [name |-> "HSet", args |-> <<key, fields[i], g.d[fields[i]].b>>]
                 ELSE [name |-> "HDel", args |-> <<key, fields[i]>>]]

undoHSet(db, args) == rollbackHashFields(db, args[1], <<args[2]>>)

undoHDel(db, args) == rollbackHashFields(db, args[1], Tail(args))

undoHMSet(db, args) ==
    rollbackHashFields(db, args[1],
                       [i \in 1..((Len(args) - 1) \div 2) |-> args[2 * i]])

undoHIncr(db, args) == rollbackHashFields(db, args[1], <<args[2]>>)

----------------------------------------------------------------------------
(* The command table *)

\* a registration that names the read locator whatever the command
RegReadFirstKey(name, executor, prepare, undo, arity, flags) ==
    [name |-> name, executor |-> executor, prepare |-> "readFirstKey", undo |-> undo,
     arity |-> arity, flags |-> flags]

Reg(name, executor, prepare, undo, arity, flags) ==
    [name |-> name, executor |-> executor, prepare |-> prepare, undo |-> undo,
     arity |-> arity, flags |-> flags]

\* the calls of init with the two registrations of HGet in the other order
RegistrationsHGetSwapped == <<
    Reg("HSet", "execHSet", "writeFirstKey", "undoHSet", 4, "flagWrite"),
    Reg("HSetNX", "execHSetNX", "writeFirstKey", "undoHSet", 4, "flagWrite"),
    Reg("HGet", "execHGet", "readFirstKey", "nil", -3, "flagReadOnly"),
    Reg("HExists", "execHExists", "readFirstKey", "nil", 3, "flagReadOnly"),
    Reg("HDel", "execHDel", "writeFirstKey", "undoHDel", -3, "flagWrite"),
    Reg("HLen", "execHLen", "readFirstKey", "nil", 2, "flagReadOnly"),
    Reg("HStrlen", "execHStrLen", "readFirstKey", "nil", 3, "flagReadOnly"),
    Reg("HMSet", "execHMSet", "writeFirstKey", "undoHMSet", -4, "flagWrite"),
    Reg("HMGet", "execHMGet", "readFirstKey", "nil", -3, "flagReadOnly"),
    Reg("HGet", "execHGet", "readFirstKey", "nil", 3, "flagReadOnly"),
    Reg("HKeys", "execHKeys", "readFirstKey", "nil", 2, "flagReadOnly"),
    Reg("HVals", "execHVals", "readFirstKey", "nil", 2, "flagReadOnly"),
    Reg("HGetAll", "execHGetAll", "readFirstKey", "nil", 2, "flagReadOnly"),
    Reg("HIncrBy", "execHIncrBy", "writeFirstKey", "undoHIncr", 4, "flagWrite"),
    Reg("HIncrByFloat", "execHIncrByFloat", "writeFirstKey", "undoHIncr", 4, "flagWrite"),
    Reg("HRandField", "execHRandField", "readFirstKey", "nil", -2, "flagReadOnly") >>

\* the calls of init, in order
Registrations == <<
    Reg("HSet", "execHSet", "writeFirstKey", "undoHSet", 4, "flagWrite"),
    Reg("HSetNX", "execHSetNX", "writeFirstKey", "undoHSet", 4, "flagWrite"),
    Reg("HGet", "execHGet", "readFirstKey", "nil", 3, "flagReadOnly"),
    Reg("HExists", "execHExists", "readFirstKey", "nil", 3, "flagReadOnly"),
    Reg("HDel", "execHDel", "writeFirstKey", "undoHDel", -3, "flagWrite"),
    Reg("HLen", "execHLen", "readFirstKey", "nil", 2, "flagReadOnly"),
    Reg("HStrlen", "execHStrLen", "readFirstKey", "nil", 3, "flagReadOnly"),
    Reg("HMSet", "execHMSet", "writeFirstKey", "undoHMSet", -4, "flagWrite"),
    Reg("HMGet", "execHMGet", "readFirstKey", "nil", -3, "flagReadOnly"),
    Reg("HGet", "execHGet", "readFirstKey", "nil", -3, "flagReadOnly"),
    Reg("HKeys", "execHKeys", "readFirstKey", "nil", 2, "flagReadOnly"),
    Reg("HVals", "execHVals", "readFirstKey", "nil", 2, "flagReadOnly"),
    Reg("HGetAll", "execHGetAll", "readFirstKey", "nil", 2, "flagReadOnly"),
    Reg("HIncrBy", "execHIncrBy", "writeFirstKey", "undoHIncr", 4, "flagWrite"),
    Reg("HIncrByFloat", "execHIncrByFloat", "writeFirstKey", "undoHIncr", 4, "flagWrite"),
    Reg("HRandField", "execHRandField", "readFirstKey", "nil", -2, "flagReadOnly") >>

\* RegisterCommand: the descriptor is stored under the lower-case name and
\* replaces the one already there
RegisterCommand(table, reg) ==
    [n \in (DOMAIN table) \cup {ToLower(reg.name)} |->
        IF n = ToLower(reg.name) THEN reg ELSE table[n]]

RECURSIVE RegisterAll(_, _)
RegisterAll(regs, n) ==
    IF n = 0 THEN [x \in {} |-> regs[1]]
    ELSE RegisterCommand(RegisterAll(regs, n - 1), regs[n])

\* the table once init has run
cmdTable == RegisterAll(Registrations, Len(Registrations))

\* n counts the command name
validateArity(arity, n) == IF arity >= 0 THEN n = arity ELSE n >= -arity

Call(executor, db, args, pick) ==
    CASE executor = "execHSet" -> execHSet(db, args)
      [] executor = "execHSetNX" -> execHSetNX(db, args)
      [] executor = "execHGet" -> execHGet(db, args)
      [] executor = "execHExists" -> execHExists(db, args)
      [] executor = "execHDel" -> execHDel(db, args)
      [] executor = "execHLen" -> execHLen(db, args)
      [] executor = "execHStrLen" -> execHStrLen(db, args)
      [] executor = "execHMSet" -> execHMSet(db, args)
      [] executor = "execHMGet" -> execHMGet(db, args)
      [] executor = "execHKeys" -> execHKeys(db, args, pick)
      [] executor = "execHVals" -> execHVals(db, args, pick)
      [] executor = "execHGetAll" -> execHGetAll(db, args, pick)
      [] executor = "execHIncrBy" -> execHIncrBy(db, args)
      [] executor = "execHIncrByFloat" -> execHIncrByFloat(db, args)
      [] executor = "execHRandField" -> execHRandField(db, args, pick)

GetUndoLogs(db, cl) ==
    LET undo == cmdTable[ToLower(cl.name)].undo
    IN  CASE undo = "undoHSet" -> undoHSet(db, cl.args)
          [] undo = "undoHDel" -> undoHDel(db, cl.args)
          [] undo = "undoHMSet" -> undoHMSet(db, cl.args)
          [] undo = "undoHIncr" -> undoHIncr(db, cl.args)
          [] OTHER -> <<>>

\* what the dict hands the executor of cl: the order of ForEach, or the sample
Picks(db, cl) ==
    LET name == ToLower(cl.name)
        g == IF Len(cl.args) >= 1 THEN getAsDict(db, cl.args[1])
             ELSE [d |-> EmptyDict, isnil |-> TRUE, err |-> FALSE]
        count == IF Len(cl.args) >= 2 THEN ParseInt(cl.args[2])
                 ELSE [ok |-> TRUE, n |-> Exact(FALSE, <<"1">>)]
    IN  IF g.isnil THEN {<<>>}
        ELSE IF name \in {"hkeys", "hvals", "hgetall"} THEN ForEachOrders(g.d)
        ELSE IF name = "hrandfield" /\ count.ok /\ ToInt(count.n) > 0
             THEN RandomDistinctKeys(g.d, ToInt(count.n))
        ELSE IF name = "hrandfield" /\ count.ok /\ ToInt(count.n) < 0
             THEN RandomKeys(g.d, -ToInt(count.n))
        ELSE {<<>>}

ArityErrReply == ErrReply("ERR wrong number of arguments")

\* dispatch of one CmdLine: lookup by lower-case name, the arity gate, the call
dispatch(db, cl, pick) ==
    LET name == ToLower(cl.name)
    IN  IF name \notin DOMAIN cmdTable
        THEN Result(db, ErrReply("ERR unknown command"))
        ELSE IF ~validateArity(cmdTable[name].arity, Len(cl.args) + 1)
        THEN Result(db, ArityErrReply)
        ELSE Call(cmdTable[name].executor, db, cl.args, pick)

----------------------------------------------------------------------------
(* The state machine *)

DB == [data |-> store, aof |-> aof]

NoCmd == [name |-> "", args |-> <<>>]

IdleTx == [state |-> "idle"]

\* concurrent clients
NumClients == 2

Clients == 1..NumClients

\* a key nobody holds
Unlocked == [writer |-> 0, readers |-> {}]

\* a client that has not begun its transaction
IdleClient ==
    [pc |-> "idle", cmds |-> <<>>, need |-> <<>>, got |-> 0, i |-> 1, undo |-> <<>>,
     j |-> 0, pending |-> <<>>, failed |-> FALSE, wrote |-> {}]

\* the keyspace at start: no hash exists, and StringKey holds an entity of
\* another command family
Init ==
    /\ store = [k \in Keys |-> IF k = StringKey THEN StringEntity ELSE NoEntity]
    /\ aof = <<>>
    /\ reply = [kind |-> "none"]
    /\ cmd = NoCmd
    /\ pre = [data |-> store, aof |-> <<>>]
    /\ steps = 0
    /\ crashed = FALSE
    /\ tx = IdleTx
    /\ locks = [k \in Keys |-> Unlocked]
    /\ txs = [t \in Clients |-> IdleClient]
    /\ applied = <<>>

\* a client may send a command
CanRun == ~crashed /\ steps < MaxCmds

\* one client command, from dispatch to reply
Run(cl) ==
    /\ \E pick \in Picks(DB, cl) :
         LET r == dispatch(DB, cl, pick)
         IN  /\ store' = r.db.data
             /\ aof' = r.db.aof
             /\ reply' = r.reply
             /\ crashed' = (r.reply = Panic)
    /\ cmd' = cl
    /\ pre' = DB
    /\ steps' = steps + 1
    /\ tx' = IdleTx
    /\ UNCHANGED <<locks, txs, applied>>

Cmd(name, args) == [name |-> name, args |-> args]

\* one or two field names
FieldLists ==
    SeqsOver(Fields, 1) \cup {<<f, g>> : f \in {<<"f">>}, g \in Fields}

\* field/value lists of HMSet: one pair, two pairs, or a pair and a lone field
PairLists ==
    {<<f, v>> : f \in Fields, v \in Vals}
    \cup {<<f, v, g, w>> : f \in {<<"f">>}, v \in Vals, g \in Fields, w \in {<<"x">>}}
    \cup {<<f, v, g>> : f \in Fields, v \in {<<"1">>}, g \in {<<"g">>}}

HSetCmds == {Cmd("HSet", <<k, f, v>>) : k \in Keys, f \in Fields, v \in Vals}

HSetNXCmds == {Cmd("HSetNX", <<k, f, v>>) : k \in Keys, f \in Fields, v \in Vals}

HDelCmds == {Cmd("HDel", <<k>> \o fs) : k \in Keys, fs \in FieldLists}

HMSetCmds == {Cmd("HMSet", <<k>> \o ps) : k \in Keys, ps \in PairLists}

\* deltas of HIncrBy: those of Vals, the largest int64 and the one above it
Deltas == Vals \cup {MaxInt64, MinInt64Mag}

HIncrByCmds == {Cmd("HIncrBy", <<k, f, v>>) : k \in Keys, f \in Fields, v \in Deltas}

HIncrByFloatCmds ==
    {Cmd("HIncrByFloat", <<k, f, v>>) : k \in Keys, f \in Fields, v \in Vals}

HRandFieldCmds ==
    {Cmd("HRandField", <<k>>) : k \in Keys}
    \cup {Cmd("HRandField", <<k, c>>) : k \in Keys, c \in Counts}
    \cup {Cmd("HRandField", <<k, c, o>>) :
             k \in Keys, c \in {<<"2">>, <<"-", "2">>}, o \in Options}
    \cup {Cmd("HRandField", <<k, <<"2">>, o, o>>) : k \in Keys, o \in Options}

\* CmdLines the arity gate turns away, and a name that is not registered
BadShapeCmds ==
    LET k == CHOOSE k \in Keys : k # StringKey
    IN  {Cmd(n, <<k>>) :
            n \in {"HSet", "HSetNX", "HGet", "HExists", "HDel", "HStrlen", "HMSet",
                   "HMGet", "HIncrBy", "HIncrByFloat"}}
        \cup {Cmd(n, <<k, <<"f">>, <<"1">>, <<"1">>>>) :
                n \in {"HLen", "HKeys", "HVals", "HGetAll", "HExists", "HStrlen",
                       "HSet", "HIncrBy"}}
        \cup {Cmd("HFoo", <<k>>)}

HSet ==
    /\ CanRun
    /\ \E cl \in HSetCmds : Run(cl)

HSetNX ==
    /\ CanRun
    /\ \E cl \in HSetNXCmds : Run(cl)

\* HGet takes a key and a field, and under its last registration more
HGet ==
    /\ CanRun
    /\ \E k \in Keys, f \in Fields, more \in {<<>>, <<<<"f">>>>} :
         Run(Cmd("HGet", <<k, f>> \o more))

HExists ==
    /\ CanRun
    /\ \E k \in Keys, f \in Fields : Run(Cmd("HExists", <<k, f>>))

HDel ==
    /\ CanRun
    /\ \E cl \in HDelCmds : Run(cl)

HLen ==
    /\ CanRun
    /\ \E k \in Keys : Run(Cmd("HLen", <<k>>))

HStrlen ==
    /\ CanRun
    /\ \E k \in Keys, f \in Fields : Run(Cmd("HStrlen", <<k, f>>))

HMSet ==
    /\ CanRun
    /\ \E cl \in HMSetCmds : Run(cl)

HMGet ==
    /\ CanRun
    /\ \E k \in Keys, fs \in FieldLists : Run(Cmd("HMGet", <<k>> \o fs))

HKeys ==
    /\ CanRun
    /\ \E k \in Keys : Run(Cmd("HKeys", <<k>>))

HVals ==
    /\ CanRun
    /\ \E k \in Keys : Run(Cmd("HVals", <<k>>))

HGetAll ==
    /\ CanRun
    /\ \E k \in Keys : Run(Cmd("HGetAll", <<k>>))

HIncrBy ==
    /\ CanRun
    /\ \E cl \in HIncrByCmds : Run(cl)

HIncrByFloat ==
    /\ CanRun
    /\ \E cl \in HIncrByFloatCmds : Run(cl)

HRandField ==
    /\ CanRun
    /\ \E cl \in HRandFieldCmds : Run(cl)

BadShape ==
    /\ CanRun
    /\ \E cl \in BadShapeCmds : Run(cl)

Next ==
    \/ HSet \/ HSetNX \/ HGet \/ HExists \/ HDel \/ HLen \/ HStrlen
    \/ HMSet \/ HMGet \/ HKeys \/ HVals \/ HGetAll
    \/ HIncrBy \/ HIncrByFloat \/ HRandField \/ BadShape

Spec == Init /\ [][Next]_vars

----------------------------------------------------------------------------
(* The transaction coordinator *)

\* commands of one transaction
MaxTx == 2

\* the forward pass from command i on: each command's undo CmdLines are taken
\* from the state it is about to change, then it runs; the pass stops at the
\* first error reply
RECURSIVE TxForward(_, _, _, _)
RECURSIVE TxAfter(_, _, _, _)
TxAfter(r, cls, i, undo) ==
    IF r.reply = Panic
    THEN [db |-> r.db, undo |-> undo, failed |-> FALSE, panic |-> TRUE]
    ELSE IF IsErrorReply(r.reply)
    THEN [db |-> r.db, undo |-> undo, failed |-> TRUE, panic |-> FALSE]
    ELSE TxForward(r.db, cls, i + 1, undo)

TxForward(db, cls, i, undo) ==
    IF i > Len(cls) THEN [db |-> db, undo |-> undo, failed |-> FALSE, panic |-> FALSE]
    ELSE TxAfter(dispatch(db, cls[i], <<>>), cls, i, undo \o GetUndoLogs(db, cls[i]))

\* the undo log replayed from its last CmdLine back to its first
RECURSIVE Rollback(_, _, _)
Rollback(db, undo, i) ==
    IF i = 0 THEN db
    ELSE Rollback(dispatch(db, undo[i], <<>>).db, undo, i - 1)

\* how the transaction ends after the forward pass f
TxOutcome(f, abort) ==
    IF f.panic THEN [db |-> f.db, state |-> "panic", undo |-> f.undo]
    ELSE IF f.failed \/ abort
    THEN [db |-> Rollback(f.db, f.undo, Len(f.undo)), state |-> "aborted",
          undo |-> f.undo]
    ELSE [db |-> f.db, state |-> "committed", undo |-> f.undo]

TxCmds ==
    HSetCmds \cup HSetNXCmds \cup HDelCmds \cup HMSetCmds
    \cup HIncrByCmds \cup HIncrByFloatCmds

TxKeys(cls) == {cls[i].args[1] : i \in 1..Len(cls)}

TxEnd(out, cls) ==
    /\ store' = out.db.data
    /\ aof' = out.db.aof
    /\ crashed' = (out.state = "panic")
    /\ tx' = [state |-> out.state, start |-> store, cmds |-> cls, undo |-> out.undo]
    /\ steps' = steps + Len(cls)
    /\ reply' = [kind |-> "none"]
    /\ cmd' = NoCmd
    /\ pre' = DB
    /\ UNCHANGED <<locks, txs, applied>>

\* one transaction: the commands run in order; the first error reply, or the
\* client's abort after the last command, rolls everything back
ExecMulti ==
    /\ ~crashed
    /\ \E n \in 1..MaxTx :
         /\ steps + n <= MaxCmds
         /\ \E cls \in SeqsOver(TxCmds, n), abort \in BOOLEAN :
              TxEnd(TxOutcome(TxForward(DB, cls, 1, <<>>), abort), cls)

NextTx == Next \/ ExecMulti

SpecTx == Init /\ [][NextTx]_vars

----------------------------------------------------------------------------
(* Concurrent transactions under key locks: a client's transaction takes   *)
(* every lock it needs, runs its commands one by one, replays its undo log *)
(* if one of them fails, and releases its locks at the end.  An executor   *)
(* changes the keyspace first and hands its CmdLine to the log afterwards. *)

\* the one order in which every transaction takes its locks
KeyOrder == << <<"k", "1">>, <<"k", "2">> >>

\* the key locators named by the registrations
writeFirstKey(args) == [write |-> {args[1]}, read |-> {}]

readFirstKey(args) == [write |-> {}, read |-> {args[1]}]

Locate(cl) ==
    IF cmdTable[ToLower(cl.name)].prepare = "writeFirstKey" THEN writeFirstKey(cl.args)
    ELSE readFirstKey(cl.args)

\* keys of write commands are locked exclusively, keys only read are shared
WriteKeys(cls) == UNION {Locate(cls[i]).write : i \in 1..Len(cls)}

ReadKeys(cls) == UNION {Locate(cls[i]).read : i \in 1..Len(cls)} \ WriteKeys(cls)

LockMode(cls, k) == IF k \in WriteKeys(cls) THEN "w" ELSE "r"

RECURSIVE Dedup(_)
Dedup(ks) ==
    IF Len(ks) = 0 THEN <<>>
    ELSE IF \E i \in 1..(Len(ks) - 1) : ks[i] = ks[Len(ks)] THEN Dedup(Front(ks))
    ELSE Append(Dedup(Front(ks)), ks[Len(ks)])

\* the keys in the order the commands name them
LockOrderAsNamed(cls) == Dedup([i \in 1..Len(cls) |-> cls[i].args[1]])

\* the keys a transaction locks, sorted by the key order
LockOrder(cls) ==
    SelectSeq(KeyOrder, LAMBDA k : k \in WriteKeys(cls) \cup ReadKeys(cls))

CanLock(ls, k, mode) ==
    IF mode = "w" THEN ls[k].writer = 0 /\ ls[k].readers = {} ELSE ls[k].writer = 0

Lock(ls, k, mode, t) ==
    IF mode = "w" THEN [ls EXCEPT ![k].writer = t]
    ELSE [ls EXCEPT ![k].readers = @ \cup {t}]

Unlock(ls, t) ==
    [k \in DOMAIN ls |->
        [writer |-> IF ls[k].writer = t THEN 0 ELSE ls[k].writer,
         readers |-> ls[k].readers \ {t}]]

\* the transactions a client may run
LockTxs ==
    { <<Cmd("HSet", <<KeyOrder[1], <<"f">>, <<"1">>>>),
        Cmd("HSet", <<KeyOrder[2], <<"f">>, <<"1">>>>)>>,
      <<Cmd("HSet", <<KeyOrder[2], <<"f">>, <<"x">>>>),
        Cmd("HSet", <<KeyOrder[1], <<"f">>, <<"x">>>>)>>,
      <<Cmd("HSet", <<KeyOrder[1], <<"f">>, <<"x">>>>)>>,
      <<Cmd("HSetNX", <<KeyOrder[1], <<"g">>, <<"1">>>>),
        Cmd("HDel", <<KeyOrder[1], <<"f">>>>)>>,
      <<Cmd("HGet", <<KeyOrder[1], <<"f">>>>)>>,
      <<Cmd("HGet", <<KeyOrder[1], <<"f">>>>),
        Cmd("HGet", <<KeyOrder[2], <<"f">>>>)>> }

\* the abort of a transaction that keeps no lock for its rollback
AbortTxUnlocked(rec, ls, t) ==
    [tx |-> [rec EXCEPT !.pc = IF Len(rec.undo) = 0 THEN "unlock" ELSE "undo",
                        !.j = Len(rec.undo)],
     locks |-> Unlock(ls, t)]

\* a command failed: the undo log is replayed next, from its last CmdLine, and
\* the locks stay as they are
AbortTx(rec, ls, t) ==
    [tx |-> [rec EXCEPT !.pc = IF Len(rec.undo) = 0 THEN "unlock" ELSE "undo",
                        !.j = Len(rec.undo)],
     locks |-> ls]

\* where client t goes once the CmdLine of its last step is in the log
AfterLog(rec, ls, t) ==
    IF rec.pc = "undolog"
    THEN [tx |-> [rec EXCEPT !.pending = <<>>, !.j = @ - 1,
                             !.pc = IF rec.j = 1 THEN "unlock" ELSE "undo"],
          locks |-> ls]
    ELSE IF rec.failed THEN AbortTx([rec EXCEPT !.pending = <<>>], ls, t)
    ELSE [tx |-> [rec EXCEPT !.pending = <<>>, !.i = @ + 1,
                             !.pc = IF rec.i = Len(rec.cmds) THEN "unlock" ELSE "exec"],
          locks |-> ls]

\* the CmdLines r appended beyond log
Appended(r, log) == SubSeq(r.db.aof, Len(log) + 1, Len(r.db.aof))

Begin(t) ==
    /\ txs[t].pc = "idle"
    /\ \E cls \in LockTxs :
         txs' = [txs EXCEPT ![t] = [IdleClient EXCEPT !.pc = "lock", !.cmds = cls,
                                                      !.need = LockOrder(cls)]]
    /\ UNCHANGED <<store, aof, reply, cmd, pre, steps, crashed, tx, locks, applied>>

\* the next lock, once nobody holds it in a conflicting mode
Acquire(t) ==
    /\ txs[t].pc = "lock"
    /\ CanLock(locks, txs[t].need[txs[t].got + 1],
               LockMode(txs[t].cmds, txs[t].need[txs[t].got + 1]))
    /\ locks' = Lock(locks, txs[t].need[txs[t].got + 1],
                     LockMode(txs[t].cmds, txs[t].need[txs[t].got + 1]), t)
    /\ txs' = [txs EXCEPT ![t].got = @ + 1,
                          ![t].pc = IF txs[t].got + 1 = Len(txs[t].need) THEN "exec"
                                    ELSE "lock"]
    /\ UNCHANGED <<store, aof, reply, cmd, pre, steps, crashed, tx, applied>>

\* the executor of the next command changes the keyspace; its undo CmdLines
\* were taken just before
ExecStep(t, cl, r) ==
    /\ store' = r.db.data
    /\ crashed' = (r.reply = Panic)
    /\ applied' = applied \o Appended(r, aof)
    /\ txs' = [txs EXCEPT ![t].pc = "log",
                          ![t].undo = @ \o GetUndoLogs(DB, cl),
                          ![t].pending = Appended(r, aof),
                          ![t].failed = IsErrorReply(r.reply),
                          ![t].wrote = IF r.db.data = store THEN @
                                       ELSE @ \cup {cl.args[1]}]
    /\ UNCHANGED <<aof, reply, cmd, pre, steps, tx, locks>>

ExecCmd(t) ==
    /\ txs[t].pc = "exec"
    /\ ExecStep(t, txs[t].cmds[txs[t].i], dispatch(DB, txs[t].cmds[txs[t].i], <<>>))

\* the next undo CmdLine, from the last one back, changes the keyspace
UndoStep(t, r) ==
    /\ store' = r.db.data
    /\ applied' = applied \o Appended(r, aof)
    /\ txs' = [txs EXCEPT ![t].pc = "undolog", ![t].pending = Appended(r, aof)]
    /\ UNCHANGED <<aof, reply, cmd, pre, steps, crashed, tx, locks>>

UndoCmd(t) ==
    /\ txs[t].pc = "undo"
    /\ UndoStep(t, dispatch(DB, txs[t].undo[txs[t].j], <<>>))

\* the executor hands its CmdLine to the log and returns
LogStep(t, next) ==
    /\ aof' = aof \o txs[t].pending
    /\ txs' = [txs EXCEPT ![t] = next.tx]
    /\ locks' = next.locks
    /\ UNCHANGED <<store, reply, cmd, pre, steps, crashed, tx, applied>>

Log(t) ==
    /\ txs[t].pc \in {"log", "undolog"}
    /\ LogStep(t, AfterLog(txs[t], locks, t))

Release(t) ==
    /\ txs[t].pc = "unlock"
    /\ locks' = Unlock(locks, t)
    /\ txs' = [txs EXCEPT ![t].pc = "done", ![t].wrote = {}]
    /\ UNCHANGED <<store, aof, reply, cmd, pre, steps, crashed, tx, applied>>

\* what a client does once its transaction has begun
ClientStep(t) == Acquire(t) \/ ExecCmd(t) \/ Log(t) \/ UndoCmd(t) \/ Release(t)

TxBegin ==
    /\ ~crashed
    /\ \E t \in Clients : Begin(t)

TxAcquire ==
    /\ ~crashed
    /\ \E t \in Clients : Acquire(t)

TxExec ==
    /\ ~crashed
    /\ \E t \in Clients : ExecCmd(t)

TxLog ==
    /\ ~crashed
    /\ \E t \in Clients : Log(t)

TxUndo ==
    /\ ~crashed
    /\ \E t \in Clients : UndoCmd(t)

TxRelease ==
    /\ ~crashed
    /\ \E t \in Clients : Release(t)

NextLock == TxBegin \/ TxAcquire \/ TxExec \/ TxLog \/ TxUndo \/ TxRelease

SpecLock == Init /\ [][NextLock]_vars

\* a client that can take a step is not held back forever
SpecLockFair == SpecLock /\ \A t \in Clients : WF_vars(~crashed /\ ClientStep(t))

----------------------------------------------------------------------------
(* Recovery *)

EmptyKeyspace == [data |-> [k \in Keys |-> NoEntity], aof |-> <<>>]

\* the log replayed through dispatch from line i on, in append order
RECURSIVE ReplayFrom(_, _, _)
ReplayFrom(db, log, i) ==
    IF i > Len(log) THEN db
    ELSE ReplayFrom(dispatch(db, log[i], <<>>).db, log, i + 1)

Replay(log) == ReplayFrom(EmptyKeyspace, log, 1)

----------------------------------------------------------------------------
(* Properties *)

\* the last step was a command that reached its executor
Executed ==
    /\ cmd # NoCmd
    /\ ToLower(cmd.name) \in DOMAIN cmdTable
    /\ validateArity(cmdTable[ToLower(cmd.name)].arity, Len(cmd.args) + 1)

LastIs(name) == Executed /\ ToLower(cmd.name) = name

Unchanged == store = pre.data /\ aof = pre.aof

\* the dict of key in db, or the empty dict
DictOf(data, key) == IF data[key].kind = "hash" THEN data[key].d ELSE EmptyDict

\* C1: a transaction that aborted, by an error reply or by the client, leaves
\* every key it touched with the entity (fields, values, or absence) it had
\* when the transaction started.
C1_UndoRestores ==
    tx.state = "aborted" => \A k \in TxKeys(tx.cmds) : store[k] = tx.start[k]

\* C2: replaying the log against an empty keyspace rebuilds every hash key of
\* the live keyspace: same keys, same fields, same values.
C2_Recovery ==
    ~crashed =>
        \A k \in Keys : store[k].kind # "string" => Replay(aof).data[k] = store[k]

\* the arguments of the last command pass the executor's own validation
ArgsValid ==
    CASE ToLower(cmd.name) = "hmset" -> Len(cmd.args) % 2 = 1
      [] ToLower(cmd.name) = "hincrby" -> ParseInt(cmd.args[3]).ok
      [] ToLower(cmd.name) = "hincrbyfloat" -> ParseDec(cmd.args[3]).ok
      [] ToLower(cmd.name) = "hrandfield" ->
            /\ Len(cmd.args) <= 3
            /\ Len(cmd.args) = 3 =>
                 ToLowerBytes(cmd.args[3]) = <<"w", "i", "t", "h", "v", "a", "l", "u", "e", "s">>
            /\ Len(cmd.args) >= 2 => ParseInt(cmd.args[2]).ok
      [] OTHER -> TRUE

OnNonHash == Executed /\ pre.data[cmd.args[1]].kind = "string"

\* C3 as stated: every hash command on a key holding a non-hash entity returns
\* the WrongType error, and changes neither the keyspace nor the log.
C3_AlwaysWrongType == OnNonHash => reply = WrongTypeErrReply /\ Unchanged

\* C3: every hash command on a key holding a non-hash entity returns an error
\* reply and changes neither the keyspace nor the log; the error is WrongType
\* whenever the arguments pass the executor's own validation (HMSet: complete
\* field/value pairs; HIncrBy, HIncrByFloat: a numeric delta; HRandField: at
\* most count and WITHVALUES, count an integer).
C3_TypeSafety ==
    OnNonHash =>
        /\ IsErrorReply(reply)
        /\ ArgsValid => reply = WrongTypeErrReply
        /\ Unchanged

\* a write command met a string key and was refused with WrongType
C3_Witness ==
    /\ OnNonHash
    /\ ToLower(cmd.name) = "hmset"
    /\ reply = WrongTypeErrReply

\* C4: no key of the keyspace holds a hash container of length 0.
C4_NoEmptyContainer ==
    \A k \in Keys : store[k].kind = "hash" => DictLen(store[k].d) > 0

\* HDel removed the last field of a hash and the key is gone
C4_Witness ==
    /\ LastIs("hdel")
    /\ pre.data[cmd.args[1]].kind = "hash"
    /\ reply.kind = "int" /\ reply.n > 0
    /\ store[cmd.args[1]] = NoEntity

\* C5: HSet k f v on an absent key or a hash returns 1 when f is new and 0 when
\* it was there, and HGet k f then returns a bulk reply holding v.
C5_HSetHGet ==
    (LastIs("hset") /\ pre.data[cmd.args[1]].kind # "string") =>
        /\ reply = IntReply(IF DictHas(DictOf(pre.data, cmd.args[1]), cmd.args[2])
                            THEN 0 ELSE 1)
        /\ execHGet(DB, <<cmd.args[1], cmd.args[2]>>).reply
              = BulkReply(Some(cmd.args[3]))

\* C6: every executor call returns a reply; none panics.
C6_NoPanic == Executed => reply # Panic

IsWrite == Executed /\ cmdTable[ToLower(cmd.name)].flags = "flagWrite"

\* C7: a write command that returns a non-error reply appends exactly one
\* CmdLine to the log, and one that returns an error reply appends none.
C7_LogIffSuccess ==
    (IsWrite /\ reply # Panic) =>
        IF IsErrorReply(reply) THEN aof = pre.aof
        ELSE Len(aof) = Len(pre.aof) + 1 /\ SubSeq(aof, 1, Len(pre.aof)) = pre.aof

ReadOnlyNames ==
    {"hget", "hexists", "hlen", "hstrlen", "hmget", "hkeys", "hvals", "hgetall",
     "hrandfield"}

\* C8: the commands registered read-only are HGet, HExists, HLen, HStrlen,
\* HMGet, HKeys, HVals, HGetAll and HRandField; each has no undo generator, and
\* running one changes neither the keyspace nor the log.
C8_ReadOnlyFrame ==
    /\ {n \in DOMAIN cmdTable : cmdTable[n].flags = "flagReadOnly"} = ReadOnlyNames
    /\ \A n \in ReadOnlyNames : cmdTable[n].undo = "nil"
    /\ (cmd # NoCmd /\ ToLower(cmd.name) \in ReadOnlyNames) =>
          Unchanged /\ GetUndoLogs(pre, cmd) = <<>>

\* a read-only command answered from a hash that exists
C8_Witness ==
    /\ LastIs("hlen")
    /\ pre.data[cmd.args[1]].kind = "hash"
    /\ reply = IntReply(2)

\* C9: replaying the log a second time, against the result of the first
\* replay, yields the keyspace the first replay yielded.
C9_ReplayIdempotent ==
    ~crashed => ReplayFrom(Replay(aof), aof, 1).data = Replay(aof).data

\* C10: HIncrBy whose delta is not an integer, or whose field holds a value
\* that is not an integer, returns an error reply and changes neither the
\* keyspace nor the log.
C10_NumericErrorsKeep ==
    (/\ LastIs("hincrby")
     /\ \/ ~ParseInt(cmd.args[3]).ok
        \/ /\ DictHas(DictOf(pre.data, cmd.args[1]), cmd.args[2])
           /\ ~ParseInt(DictOf(pre.data, cmd.args[1])[cmd.args[2]].b).ok)
    => IsErrorReply(reply) /\ Unchanged

\* the key and the dict the last command was aimed at, before and after it
PreDict == DictOf(pre.data, cmd.args[1])

PostDict == DictOf(store, cmd.args[1])

OnHashOrAbsent == pre.data[cmd.args[1]].kind # "string"

\* C11: HSetNX k f v on a field that is there returns 0 and changes neither the
\* keyspace nor the log; on a field that is not there (k absent or without f)
\* it returns 1 and f holds v afterwards, every other field as before.
C11_HSetNX ==
    (LastIs("hsetnx") /\ OnHashOrAbsent) =>
        IF DictHas(PreDict, cmd.args[2])
        THEN reply = IntReply(0) /\ Unchanged
        ELSE /\ reply = IntReply(1)
             /\ execHGet(DB, <<cmd.args[1], cmd.args[2]>>).reply
                   = BulkReply(Some(cmd.args[3]))
             /\ \A f \in DOMAIN PreDict : DictHas(PostDict, f) /\ PostDict[f] = PreDict[f]

\* HSetNX met a field holding another value and left it alone
C11_Witness ==
    /\ LastIs("hsetnx")
    /\ DictHas(PreDict, cmd.args[2])
    /\ PreDict[cmd.args[2]].b # cmd.args[3]
    /\ reply = IntReply(0)

NamedFields == {cmd.args[i] : i \in 2..Len(cmd.args)}

\* C12: HDel k f1..fn returns the number of distinct named fields that were
\* fields of k, afterwards no named field is a field of k and every other
\* field is as before, and when no field is left k is absent and HLen k is 0.
C12_HDel ==
    (LastIs("hdel") /\ OnHashOrAbsent) =>
        /\ reply = IntReply(Cardinality(NamedFields \cap DOMAIN PreDict))
        /\ NamedFields \cap DOMAIN PostDict = {}
        /\ DOMAIN PostDict = (DOMAIN PreDict) \ NamedFields
        /\ \A f \in DOMAIN PostDict : PostDict[f] = PreDict[f]
        /\ DOMAIN PostDict = {} =>
              /\ store[cmd.args[1]] = NoEntity
              /\ execHLen(DB, <<cmd.args[1]>>).reply = IntReply(0)

\* HDel named the same field twice and counted it once
C12_Witness ==
    /\ LastIs("hdel")
    /\ Len(cmd.args) = 3 /\ cmd.args[2] = cmd.args[3]
    /\ DictHas(PreDict, cmd.args[2])
    /\ reply = IntReply(1)

\* the count HRandField was given (1 without a count argument)
RandCount == IF Len(cmd.args) >= 2 THEN ToInt(ParseInt(cmd.args[2]).n) ELSE 1

IsEmptyReply(r) == r = EmptyMultiBulkReply \/ r = MultiBulkReply(<<>>)

\* the field names of a HRandField reply: every entry, or every other one
\* when values come with them
RandNames(r, withvalues) ==
    IF withvalues THEN [i \in 1..(Len(r.args) \div 2) |-> r.args[2 * i - 1]]
    ELSE r.args

\* C13: HRandField k count on a hash of m fields returns min(count, m) different
\* field names of k for count > 0, |count| field names of k for count < 0, and
\* nothing for count = 0 or an absent key; with WITHVALUES every name is
\* followed by the value the field holds.
C13_HRandField ==
    (LastIs("hrandfield") /\ ArgsValid /\ OnHashOrAbsent) =>
        IF pre.data[cmd.args[1]].kind = "none" \/ RandCount = 0
        THEN IsEmptyReply(reply)
        ELSE /\ reply.kind = "multibulk"
             /\ LET names == RandNames(reply, Len(cmd.args) = 3)
                IN  /\ \A i \in 1..Len(names) :
                         Len(names[i]) = 1 /\ DictHas(PreDict, names[i][1])
                    /\ RandCount > 0 =>
                         Len(names) = Min(RandCount, DictLen(PreDict)) /\ IsDistinct(names)
                    /\ RandCount < 0 => Len(names) = -RandCount
                    /\ Len(cmd.args) = 3 =>
                         /\ Len(reply.args) = 2 * Len(names)
                         /\ \A i \in 1..Len(names) :
                              reply.args[2 * i] = Some(PreDict[names[i][1]].b)

\* the integer a digit string denotes, of any size
Denoted(b) == Exact(Len(b) > 0 /\ b[1] = "-", StripZeros(Unsigned(b)))

\* C17: when HIncrBy k f d returns a value, that value and the one stored in f
\* both denote the integer n + d, n being what f held before (0 if absent),
\* also when n + d is outside the int64 range.
C17_HIncrByExact ==
    (LastIs("hincrby") /\ reply.kind = "bulk") =>
        LET n == IF DictHas(PreDict, cmd.args[2])
                 THEN ParseInt(PreDict[cmd.args[2]].b).n ELSE Exact(FALSE, <<"0">>)
            exact == Sum(n, ParseInt(cmd.args[3]).n)
        IN  /\ Denoted(reply.arg[1]) = exact
            /\ DictHas(PostDict, cmd.args[2])
            /\ Denoted(PostDict[cmd.args[2]].b) = exact

\* the last call of init that registers name
LastRegistration(name) ==
    Registrations[CHOOSE i \in 1..Len(Registrations) :
                     /\ ToLower(Registrations[i].name) = name
                     /\ \A j \in (i + 1)..Len(Registrations) :
                          ToLower(Registrations[j].name) # name]

\* the CmdLine has too few or too many arguments for its descriptor
ArityViolated ==
    LET arity == cmdTable[ToLower(cmd.name)].arity
        n == Len(cmd.args) + 1
    IN  IF arity > 0 THEN n # arity ELSE n < -arity

\* C18: every hash command name has the descriptor of its last registration, so
\* HGet takes two arguments or more; dispatch answers a CmdLine whose argument
\* count violates the arity with the arity error and changes nothing, and lets
\* every other CmdLine through to the executor.
C18_ArityGate ==
    /\ DOMAIN cmdTable = {ToLower(Registrations[i].name) : i \in 1..Len(Registrations)}
    /\ \A name \in DOMAIN cmdTable : cmdTable[name] = LastRegistration(name)
    /\ cmdTable["hget"].arity = -3
    /\ (cmd # NoCmd /\ ToLower(cmd.name) \in DOMAIN cmdTable) =>
          IF ArityViolated THEN reply = ArityErrReply /\ Unchanged
          ELSE reply # ArityErrReply

\* a CmdLine with too few arguments was turned away
C18_Witness ==
    /\ cmd # NoCmd
    /\ ToLower(cmd.name) = "hset" /\ Len(cmd.args) = 1
    /\ reply = ArityErrReply

\* C19: HMGet k f1..fn on an absent key or a hash returns n entries, entry i
\* the value of fi when fi is a field of k and null otherwise, and entry i is
\* not null exactly when HExists k fi returns 1.
C19_HMGet ==
    (LastIs("hmget") /\ OnHashOrAbsent) =>
        /\ reply.kind = "multibulk"
        /\ Len(reply.args) = Len(cmd.args) - 1
        /\ \A i \in 1..(Len(cmd.args) - 1) :
             /\ reply.args[i] = IF DictHas(PreDict, cmd.args[i + 1])
                                THEN Some(PreDict[cmd.args[i + 1]].b) ELSE None
             /\ (reply.args[i] # None)
                   <=> (execHExists(DB, <<cmd.args[1], cmd.args[i + 1]>>).reply
                           = IntReply(1))

\* client t is between its first command and the end of its rollback
Running(t) == txs[t].pc \in {"exec", "log", "undo", "undolog"}

\* C14: while a transaction is running or rolling back, no other transaction
\* that uses a key it has written is running: nobody else reads a value the
\* transaction wrote and has not yet committed or put back.
C14_RollbackIsolated ==
    \A t \in Clients, u \in Clients :
        (t # u /\ Running(t) /\ Running(u)) =>
            txs[t].wrote \cap (WriteKeys(txs[u].cmds) \cup ReadKeys(txs[u].cmds)) = {}

\* a transaction is rolling back a key another transaction is waiting for
C14_Witness ==
    \E t \in Clients, u \in Clients :
        /\ txs[t].pc = "undo" /\ txs[t].wrote # {}
        /\ txs[u].pc = "lock"
        /\ txs[u].need[txs[u].got + 1] \in txs[t].wrote

\* C15: every transaction that asks for its locks gets them and finishes.
C15_DeadlockFree ==
    \A t \in Clients : (txs[t].pc = "lock") ~> (txs[t].pc = "done")

\* a transaction waits for a key that another transaction holds
C15_Witness ==
    \E t \in Clients, u \in Clients :
        /\ t # u
        /\ txs[t].pc = "lock"
        /\ locks[txs[t].need[txs[t].got + 1]].writer = u
        /\ txs[u].pc = "lock"

LinesOn(log, k) == SelectSeq(log, LAMBDA l : l.args[1] = k)

IsPrefix(a, b) == Len(a) <= Len(b) /\ SubSeq(b, 1, Len(a)) = a

\* C16: the logged CmdLines of a key are in the log in the order in which their
\* mutations were applied, and once every transaction is done replaying the log
\* rebuilds every hash of the keyspace.
C16_AppendOrder ==
    /\ \A k \in Keys : IsPrefix(LinesOn(aof, k), LinesOn(applied, k))
    /\ (\A t \in Clients : txs[t].pending = <<>>) =>
          \A k \in Keys : LinesOn(aof, k) = LinesOn(applied, k)
    /\ (\A t \in Clients : txs[t].pc = "done") =>
          \A k \in Keys : store[k].kind # "string" => Replay(aof).data[k] = store[k]

\* two clients wrote the same key and both CmdLines are in the log
C16_Witness ==
    /\ \A t \in Clients : txs[t].pc = "done"
    /\ \E i, j \in 1..Len(aof) :
         /\ i < j
         /\ aof[i].name = "hset" /\ aof[j].name = "hset"
         /\ aof[i].args[1] = aof[j].args[1]
         /\ aof[i].args[3] # aof[j].args[3]

====
